---- MODULE Spec2Model ----
(***************************************************************************)
(* Model of pycryptax/gains.py: CapitalGainCalculator.__init__ (the feed   *)
(* aggregation loop and the three matching passes per asset), AssetPool,   *)
(* AggregateDayTxs and Gain.                                               *)
(*                                                                         *)
(* Amounts are whole units.  Values (costs, proceeds) are exact rationals  *)
(* <<n, d>> in lowest terms: the code rounds nowhere, it only multiplies   *)
(* and divides by amounts.                                                 *)
(***************************************************************************)
EXTENDS Integers, Sequences, FiniteSets, TLC

\* ----------------------------------------------------------------- bounds

\* Number of transactions the feed (gainData) yields at most.
MaxTx == 3

Assets == {"X", "Y"}
\* Day numbers: 1 -> 31 is 30 days apart, 1 -> 32 is 31 days apart.
Dates == {1, 2, 31, 32}
\* |tx.amount|, tx.price and tx.fee of a transaction.  With one price and
\* one fee the value of a day still is not proportional to its amount: buying
\* 1 + 1 costs 6, buying 2 costs 5.
Amounts == {1, 2}
Prices == {2}
Fees == {1}
\* (start, end) report windows the calculator is constructed with.
Windows == {<<2, 31>>}

\* (summary, disposals) flags the calculator is constructed with.
Flags == {<<TRUE, TRUE>>, <<TRUE, FALSE>>, <<FALSE, TRUE>>}

\* Length of the bed and breakfasting window in days.
BnBDays == 30

\* ------------------------------------------------------- exact arithmetic

Abs(n) == IF n < 0 THEN -n ELSE n

RECURSIVE GCD(_, _)
GCD(a, b) == IF b = 0 THEN a ELSE GCD(b, a % b)

\* The rational n/d (d # 0) in lowest terms with a positive denominator.
Rat(n, d) ==
    LET g == GCD(Abs(n), Abs(d))
        sg == IF d < 0 THEN -1 ELSE 1
    IN  <<sg * (n \div g), sg * (d \div g)>>

RInt(n) == <<n, 1>>
RZero == <<0, 1>>
RAdd(a, b) == Rat(a[1] * b[2] + b[1] * a[2], a[2] * b[2])
RSub(a, b) == Rat(a[1] * b[2] - b[1] * a[2], a[2] * b[2])
\* a * m / k for integers m and k # 0.
RScale(a, m, k) == Rat(a[1] * m, a[2] * k)

Min(a, b) == IF a < b THEN a ELSE b

\* -------------------------------------------------------------- DateMap

\* datemap.DateMap: values keyed by date, iterated in ascending date order.
DateMapEmpty == [d \in {} |-> 0]

DateMapContains(m, date) == date \in DOMAIN m

\* insert(date, value) fails when the date is already present.
DateMapInsertFails(m, date) == date \in DOMAIN m

\* insert(date, value) on a date not yet present.
DateMapInsert(m, date, v) ==
    [d \in (DOMAIN m) \cup {date} |-> IF d = date THEN v ELSE m[d]]

RECURSIVE SortedSeq(_)
SortedSeq(S) ==
    IF S = {} THEN <<>>
    ELSE LET lo == CHOOSE x \in S : \A y \in S : x <= y
         IN  <<lo>> \o SortedSeq(S \ {lo})

\* Plain traversal: the dates in ascending order.
DateMapKeys(m) == SortedSeq(DOMAIN m)

\* range(lo, hi): the stored dates within [lo, hi], ascending.
DateMapRange(m, lo, hi) == SortedSeq({d \in DOMAIN m : lo <= d /\ d <= hi})

\* ---------------------------------------------------------- data classes

\* AggregateDayTxs.__init__
NewDayTxs == [acquireAmt |-> 0, acquireVal |-> RZero,
              disposeAmt |-> 0, disposeVal |-> RZero]

\* AggregateDayTxs.acquire
DayAcquire(tx, amt, val) ==
    [tx EXCEPT !.acquireAmt = @ + amt, !.acquireVal = RAdd(@, val)]

\* AggregateDayTxs.dispose
DayDispose(tx, amt, val) ==
    [tx EXCEPT !.disposeAmt = @ + amt, !.disposeVal = RAdd(@, val)]

\* AssetPool.__init__
NewPool == [totalQuantity |-> 0, totalCost |-> RZero]

\* AssetPool.add
PoolAdd(pool, quantity, cost) ==
    [pool EXCEPT !.totalQuantity = @ + quantity, !.totalCost = RAdd(@, cost)]

\* AssetPool.dispose raises when more is disposed of than the pool holds.
PoolDisposeRaises(pool, quantity) == quantity > pool.totalQuantity

\* Mutant of PoolDisposeCost: the cost is rounded down to whole units.
PoolDisposeCostFloor(pool, quantity) ==
    RInt((pool.totalCost[1] * quantity)
            \div (pool.totalCost[2] * pool.totalQuantity))

\* AssetPool.dispose: the cost it returns.
PoolDisposeCost(pool, quantity) ==
    RScale(pool.totalCost, quantity, pool.totalQuantity)

\* AssetPool.dispose: the pool it leaves.
PoolDispose(pool, quantity) ==
    [pool EXCEPT !.totalQuantity = @ - quantity,
                 !.totalCost = RSub(@, PoolDisposeCost(pool, quantity))]

\* Gain(cost, value), Gain.__iadd__ and Gain.gain
NewGain(cost, value) == [cost |-> cost, value |-> value]
GainAdd(a, b) == [cost |-> RAdd(a.cost, b.cost), value |-> RAdd(a.value, b.value)]
GainOf(g) == RSub(g.value, g.cost)

\* ---------------------------------------------------------------- state

VARIABLES
    pc,                 \* "feed", then the pass "sameday", "bnb", "pool", "done"
    err,                \* the exception __init__ raised, "" when none
    start, end,         \* self._start, self._end
    includeSummary,     \* self._includeSummary
    includeDisposals,   \* self._includeDisposals
    nTx,                \* transactions read from gainData so far
    assetOrder,         \* keys of the dict assetTxs in insertion order
    assetTxs,           \* asset -> DateMap of AggregateDayTxs
    ai,                 \* position of `for asset, dayTxs in assetTxs.items()`
    di,                 \* position of the pass's `for date, tx in dayTxs`
    mi,                 \* position in dayTxs.range(...) of the inner loop, 0 outside
    assetPools,         \* self._assetPools
    assetPoolsAtEnd,    \* self._assetPoolsAtEnd
    assetGain,          \* self._assetGain
    totalGain,          \* self._totalGain
    disposals,          \* self._disposals
    total_number_of_disposals,
    matches,            \* history: every match made, in order, with the
                        \* amount and value of its source before it (src*)
    orig                \* history: assetTxs as aggregated, before any match

vars == <<pc, err, start, end, includeSummary, includeDisposals, nTx,
          assetOrder, assetTxs, ai, di, mi, assetPools, assetPoolsAtEnd,
          assetGain, totalGain, disposals, total_number_of_disposals,
          matches, orig>>

\* The state as one record, for the operators that compute a step.
St == [pc |-> pc, err |-> err, start |-> start, end |-> end,
       includeSummary |-> includeSummary, includeDisposals |-> includeDisposals,
       nTx |-> nTx, assetOrder |-> assetOrder, assetTxs |-> assetTxs,
       ai |-> ai, di |-> di, mi |-> mi, assetPools |-> assetPools,
       assetPoolsAtEnd |-> assetPoolsAtEnd, assetGain |-> assetGain,
       totalGain |-> totalGain, disposals |-> disposals,
       total_number_of_disposals |-> total_number_of_disposals,
       matches |-> matches, orig |-> orig]

\* The next state is the record s.
Becomes(s) ==
    /\ pc' = s.pc /\ err' = s.err /\ start' = s.start /\ end' = s.end
    /\ includeSummary' = s.includeSummary
    /\ includeDisposals' = s.includeDisposals
    /\ nTx' = s.nTx /\ assetOrder' = s.assetOrder /\ assetTxs' = s.assetTxs
    /\ ai' = s.ai /\ di' = s.di /\ mi' = s.mi
    /\ assetPools' = s.assetPools /\ assetPoolsAtEnd' = s.assetPoolsAtEnd
    /\ assetGain' = s.assetGain /\ totalGain' = s.totalGain
    /\ disposals' = s.disposals
    /\ total_number_of_disposals' = s.total_number_of_disposals
    /\ matches' = s.matches /\ orig' = s.orig

\* CapitalGainCalculator.__init__, up to the feed loop.
Init ==
    /\ pc = "feed" /\ err = ""
    /\ \E w \in Windows : start = w[1] /\ end = w[2]
    /\ \E f \in Flags : includeSummary = f[1] /\ includeDisposals = f[2]
    /\ nTx = 0
    /\ assetOrder = <<>>
    /\ assetTxs = [a \in {} |-> DateMapEmpty]
    /\ ai = 0 /\ di = 0 /\ mi = 0
    /\ assetPools = [a \in {} |-> NewPool]
    /\ assetPoolsAtEnd = [a \in {} |-> NewPool]
    /\ assetGain = [a \in {} |-> NewGain(RZero, RZero)]
    /\ totalGain = NewGain(RZero, RZero)
    /\ disposals = DateMapEmpty
    /\ total_number_of_disposals = 0
    /\ matches = <<>>
    /\ orig = [a \in {} |-> DateMapEmpty]

\* ------------------------------------------------------------ aggregation

\* getDayTxForAsset(asset, date) followed by acquire or dispose on the result.
WithDayTx(s, asset, date, amt, val, isAcquire) ==
    LET known == asset \in DOMAIN s.assetTxs
        dayTxs == IF known THEN s.assetTxs[asset] ELSE DateMapEmpty
        tx == IF DateMapContains(dayTxs, date) THEN dayTxs[date] ELSE NewDayTxs
        tx2 == IF isAcquire THEN DayAcquire(tx, amt, val)
               ELSE DayDispose(tx, amt, val)
        dayTxs2 == IF DateMapContains(dayTxs, date)
                   THEN [dayTxs EXCEPT ![date] = tx2]
                   ELSE DateMapInsert(dayTxs, date, tx2)
    IN  [s EXCEPT
           !.assetOrder = IF known THEN @ ELSE Append(@, asset),
           !.assetTxs = [a \in (DOMAIN @) \cup {asset} |->
                            IF a = asset THEN dayTxs2 ELSE @[a]],
           !.nTx = @ + 1]

\* One iteration of `for date, tx in gainData` with tx.amount > 0.
FeedAcquire ==
    /\ pc = "feed" /\ nTx < MaxTx
    /\ \E asset \in Assets, date \in Dates, amount \in Amounts,
          price \in Prices, fee \in Fees :
          Becomes(WithDayTx(St, asset, date, amount,
                            RInt(amount * price + fee), TRUE))

\* One iteration of `for date, tx in gainData` with tx.amount < 0.
FeedDispose ==
    /\ pc = "feed" /\ nTx < MaxTx
    /\ \E asset \in Assets, date \in Dates, amount \in Amounts,
          price \in Prices, fee \in Fees :
          Becomes(WithDayTx(St, asset, date, amount,
                            RInt(amount * price - fee), FALSE))

\* gainData is exhausted: the loop over assetTxs.items() starts.
FeedEnd ==
    /\ pc = "feed"
    /\ Becomes([St EXCEPT
                  !.pc = IF assetOrder = <<>> THEN "done" ELSE "sameday",
                  !.ai = IF assetOrder = <<>> THEN 0 ELSE 1,
                  !.di = IF assetOrder = <<>> THEN 0 ELSE 1,
                  !.orig = assetTxs])

\* ------------------------------------------------------------- positions

CurAsset(s) == s.assetOrder[s.ai]
CurDayTxs(s) == s.assetTxs[CurAsset(s)]
CurDates(s) == DateMapKeys(CurDayTxs(s))
CurDate(s) == CurDates(s)[s.di]
CurTx(s) == CurDayTxs(s)[CurDate(s)]

\* The exception kind propagates out of __init__.
Raise(s, kind) == [s EXCEPT !.err = kind]

\* The pass that follows a pass of the per-asset loop body.
PassAfter(p) == IF p = "sameday" THEN "bnb" ELSE "pool"

\* Mutant of NextDay: the three rules are applied day by day, each day
\* getting its same-day, bed and breakfasting and pooling step in turn.
NextDayInterleaved(s) ==
    IF s.pc # "pool"
    THEN [s EXCEPT !.pc = PassAfter(s.pc), !.mi = 0]
    ELSE IF s.di < Len(CurDates(s))
    THEN [s EXCEPT !.pc = "sameday", !.di = @ + 1, !.mi = 0]
    ELSE IF s.ai < Len(s.assetOrder)
    THEN [s EXCEPT !.pc = "sameday", !.ai = @ + 1, !.di = 1, !.mi = 0]
    ELSE [s EXCEPT !.pc = "done", !.ai = 0, !.di = 0, !.mi = 0]

\* The loop `for date, tx in dayTxs` of the current pass moves on: to the
\* next date, to the next pass of the asset, to the next asset, or to the end.
NextDay(s) ==
    IF s.di < Len(CurDates(s))
    THEN [s EXCEPT !.di = @ + 1, !.mi = 0]
    ELSE IF s.pc # "pool"
    THEN [s EXCEPT !.pc = PassAfter(s.pc), !.di = 1, !.mi = 0]
    ELSE IF s.ai < Len(s.assetOrder)
    THEN [s EXCEPT !.pc = "sameday", !.ai = @ + 1, !.di = 1, !.mi = 0]
    ELSE [s EXCEPT !.pc = "done", !.ai = 0, !.di = 0, !.mi = 0]

\* ---------------------------------------------------------------- matching

\* Mutant of InWindow: the start of the window is not looked at.
InWindowNoStart(date, st, en) == ~(date > en)

\* applyGain's test: the date lies in the report window.
InWindow(date, st, en) == ~(date < st \/ date > en)

\* applyGain: [st: the state it leaves, reportable: its result,
\* raised: self._disposals.insert failed].
ApplyGain(s, asset, gain, date) ==
    IF ~InWindow(date, s.start, s.end)
    THEN [st |-> s, reportable |-> FALSE, raised |-> FALSE]
    ELSE
      LET s1 == IF s.includeSummary
                THEN [s EXCEPT
                        !.totalGain = GainAdd(@, gain),
                        !.assetGain =
                           [a \in (DOMAIN @) \cup {asset} |->
                              IF a = asset
                              THEN IF asset \in DOMAIN @
                                   THEN GainAdd(@[asset], gain) ELSE gain
                              ELSE @[a]]]
                ELSE s
      IN  IF ~s.includeDisposals
          THEN [st |-> s1, reportable |-> TRUE, raised |-> FALSE]
          ELSE IF DateMapInsertFails(s1.disposals, date)
          THEN [st |-> Raise(s1, "DateMapInsert"),
                reportable |-> FALSE, raised |-> TRUE]
          \* the record holds the asset and the Gain object passed in
          ELSE [st |-> [s1 EXCEPT !.disposals =
                           DateMapInsert(@, date, <<asset, gain>>)],
                reportable |-> TRUE, raised |-> FALSE]

\* match: the amount that can be matched.
MatchAmount(disposeTx, acquireTx) ==
    Min(disposeTx.disposeAmt, acquireTx.acquireAmt)

\* match: the proportion of the acquisition's cost.
MatchCost(acquireTx, amount) ==
    RScale(acquireTx.acquireVal, amount, acquireTx.acquireAmt)

\* match: the proportion of the disposal's value.
MatchValue(disposeTx, amount) ==
    RScale(disposeTx.disposeVal, amount, disposeTx.disposeAmt)

\* Mutant of MatchAdjust: the acquisition's amount is left as it was.
MatchAdjustKeepsAcquired(dayTxs, date, matchDate, amount, cost, value) ==
    [dayTxs EXCEPT ![date].disposeAmt = @ - amount,
                   ![date].disposeVal = RSub(@, value),
                   ![matchDate].acquireVal = RSub(@, cost)]

\* match: both day aggregates with the matched amount, cost and value removed.
MatchAdjust(dayTxs, date, matchDate, amount, cost, value) ==
    [dayTxs EXCEPT ![date].disposeAmt = @ - amount,
                   ![matchDate].acquireAmt = @ - amount,
                   ![date].disposeVal = RSub(@, value),
                   ![matchDate].acquireVal = RSub(@, cost)]

\* match(asset, date, matchDate, dayTxs[date], dayTxs[matchDate], rule)
Match(s, asset, date, matchDate, rule) ==
    LET disposeTx == s.assetTxs[asset][date]
        acquireTx == s.assetTxs[asset][matchDate]
        amount == MatchAmount(disposeTx, acquireTx)
        cost == MatchCost(acquireTx, amount)
        value == MatchValue(disposeTx, amount)
        g == ApplyGain(s, asset, NewGain(cost, value), date)
    IN  IF amount = 0 THEN s
        ELSE IF g.raised THEN g.st
        ELSE [g.st EXCEPT
                !.assetTxs[asset] =
                    MatchAdjust(@, date, matchDate, amount, cost, value),
                !.total_number_of_disposals =
                    IF g.reportable THEN @ + 1 ELSE @,
                !.matches = Append(@,
                    [rule |-> rule, asset |-> asset, date |-> date,
                     matchDate |-> matchDate, amount |-> amount,
                     cost |-> cost, value |-> value,
                     srcAmt |-> acquireTx.acquireAmt,
                     srcVal |-> acquireTx.acquireVal,
                     reportable |-> g.reportable])]

\* A step that raised stays raised; otherwise the loop moves on.
Continue(s) == IF s.err # "" THEN s ELSE NextDay(s)

\* Same-day pass: one iteration of `for date, tx in dayTxs`.
SameDayStep(s) ==
    Continue(Match(s, CurAsset(s), CurDate(s), CurDate(s), "SAME_DAY"))

\* Mutant of BnBLast: the window is one day too long.
BnBLastOff(date) == date + BnBDays + 1

\* The last day of the bed and breakfasting window of a disposal on date.
BnBLast(date) == date + BnBDays

\* Mutant of BnBRange: the 30 days before the disposal are in range too.
BnBRangeBothWays(s) ==
    DateMapRange(CurDayTxs(s), CurDate(s) - BnBDays, CurDate(s) - 1)
        \o DateMapRange(CurDayTxs(s), CurDate(s) + 1, BnBLast(CurDate(s)))

\* dayTxs.range(date + 1 day, date + 30 days) of the current date.
BnBRange(s) == DateMapRange(CurDayTxs(s), CurDate(s) + 1, BnBLast(CurDate(s)))

\* Mutant of BnBStep: the range is walked from its latest date down.
BnBStepLatestFirst(s) ==
    IF s.mi = 0 /\ (CurTx(s).disposeAmt = 0 \/ BnBRange(s) = <<>>)
    THEN NextDay(s)
    ELSE LET j == s.mi + 1
             n == Len(BnBRange(s))
             s1 == Match(s, CurAsset(s), CurDate(s), BnBRange(s)[n + 1 - j],
                         "BED_AND_BREAKFASTING")
         IN  IF s1.err # "" THEN s1
             ELSE IF j < n THEN [s1 EXCEPT !.mi = j]
             ELSE NextDay(s1)

\* Bed and breakfasting pass: at the head of the outer loop (mi = 0) a day
\* without disposals, or with nothing in range, is passed over; otherwise one
\* iteration of the inner loop over the range is made.
BnBStep(s) ==
    IF s.mi = 0 /\ (CurTx(s).disposeAmt = 0 \/ BnBRange(s) = <<>>)
    THEN NextDay(s)
    ELSE LET j == s.mi + 1
             s1 == Match(s, CurAsset(s), CurDate(s), BnBRange(s)[j],
                         "BED_AND_BREAKFASTING")
         IN  IF s1.err # "" THEN s1
             ELSE IF j < Len(BnBRange(s)) THEN [s1 EXCEPT !.mi = j]
             ELSE NextDay(s1)

SameDayMatch == pc = "sameday" /\ err = "" /\ Becomes(SameDayStep(St))

BnBSkip ==
    /\ pc = "bnb" /\ err = "" /\ mi = 0
    /\ CurTx(St).disposeAmt = 0 \/ BnBRange(St) = <<>>
    /\ Becomes(BnBStep(St))

BnBMatch ==
    /\ pc = "bnb" /\ err = ""
    /\ mi > 0 \/ (CurTx(St).disposeAmt # 0 /\ BnBRange(St) # <<>>)
    /\ Becomes(BnBStep(St))

\* Section 104 pass, the disposal branch: tx.disposeAmt # 0.
PoolDisposal(s, asset, date, tx) ==
    IF asset \notin DOMAIN s.assetPools
    THEN Raise(s, "ValueError: Disposing of an asset not acquired")
    ELSE
      LET pool == s.assetPools[asset]
          \* average_price = total_cost / total_amount comes first
      IN  IF pool.totalQuantity = 0
          THEN Raise(s, "ArithmeticError: division by zero")
          ELSE IF PoolDisposeRaises(pool, tx.disposeAmt)
          THEN Raise(s, "ValueError: Quantity of asset being disposed, is more than existing")
          ELSE
            LET cost == PoolDisposeCost(pool, tx.disposeAmt)
                s1 == [s EXCEPT !.assetPools[asset] =
                                    PoolDispose(pool, tx.disposeAmt)]
                g == ApplyGain(s1, asset, NewGain(cost, tx.disposeVal), date)
            IN  IF g.raised THEN g.st
                ELSE [g.st EXCEPT
                        !.total_number_of_disposals =
                            IF g.reportable THEN @ + 1 ELSE @,
                        !.matches = Append(@,
                            [rule |-> "SECTION_104", asset |-> asset,
                             date |-> date, matchDate |-> date,
                             amount |-> tx.disposeAmt, cost |-> cost,
                             value |-> tx.disposeVal,
                             srcAmt |-> pool.totalQuantity,
                             srcVal |-> pool.totalCost,
                             reportable |-> g.reportable])]

\* Section 104 pass, the acquisition branch: tx.acquireAmt # 0.
PoolAcquisition(s, asset, tx) ==
    LET pool == IF asset \in DOMAIN s.assetPools
                THEN s.assetPools[asset] ELSE NewPool
        pool2 == PoolAdd(pool, tx.acquireAmt, tx.acquireVal)
    IN  [s EXCEPT !.assetPools =
            [a \in (DOMAIN @) \cup {asset} |->
                IF a = asset THEN pool2 ELSE @[a]]]

\* Section 104 pass, the end of the loop body: the copy of the pool kept for
\* dates up to the end of the range.
PoolSnapshot(s, asset, date) ==
    IF ~(date <= s.end) THEN s
    ELSE IF asset \notin DOMAIN s.assetPools
    THEN Raise(s, "KeyError")
    ELSE [s EXCEPT !.assetPoolsAtEnd =
            [a \in (DOMAIN @) \cup {asset} |->
                IF a = asset THEN s.assetPools[asset] ELSE @[a]]]

\* Section 104 pass: one iteration of `for date, tx in dayTxs`.
PoolStep(s) ==
    LET asset == CurAsset(s)
        date == CurDate(s)
        tx == CurTx(s)
    IN  IF tx.acquireAmt # 0 /\ tx.disposeAmt # 0
        THEN Raise(s, "AssertionError")
        ELSE
          LET s1 == IF tx.acquireAmt # 0 THEN PoolAcquisition(s, asset, tx)
                    ELSE s
              s2 == IF tx.disposeAmt # 0 THEN PoolDisposal(s1, asset, date, tx)
                    ELSE s1
          IN  IF s2.err # "" THEN s2
              ELSE Continue(PoolSnapshot(s2, asset, date))

PoolAcquireDay ==
    /\ pc = "pool" /\ err = "" /\ CurTx(St).acquireAmt # 0
    /\ Becomes(PoolStep(St))

PoolDisposeDay ==
    /\ pc = "pool" /\ err = "" /\ CurTx(St).acquireAmt = 0 /\ CurTx(St).disposeAmt # 0
    /\ Becomes(PoolStep(St))

PoolIdleDay ==
    /\ pc = "pool" /\ err = "" /\ CurTx(St).acquireAmt = 0 /\ CurTx(St).disposeAmt = 0
    /\ Becomes(PoolStep(St))

\* One step of __init__ after the feed, whatever the pass.
Step(s) ==
    IF s.pc = "sameday" THEN SameDayStep(s)
    ELSE IF s.pc = "bnb" THEN BnBStep(s)
    ELSE PoolStep(s)

\* __init__ has returned or raised.
Ended(s) == s.pc = "done" \/ s.err # ""

\* The state __init__ ends in.
RECURSIVE Run(_)
Run(s) == IF Ended(s) THEN s ELSE Run(Step(s))

Next ==
    \/ FeedAcquire \/ FeedDispose \/ FeedEnd
    \/ SameDayMatch \/ BnBSkip \/ BnBMatch
    \/ PoolAcquireDay \/ PoolDisposeDay \/ PoolIdleDay

Spec == Init /\ [][Next]_vars

\* ================================================================ claims

\* ---- helpers of the claims (they read the history, they model no code)

Idx == 1..Len(matches)

\* The matching has started: the feed is aggregated and orig is set.
Matching == pc # "feed"

\* Position of an asset in the loop over assetTxs.items().
AssetPos(a) == CHOOSE i \in 1..Len(assetOrder) : assetOrder[i] = a

PassNo(p) == IF p = "sameday" THEN 1 ELSE IF p = "bnb" THEN 2 ELSE 3

\* The pass p of asset a has finished its iteration for date d.
Processed(a, d, p) ==
    /\ Matching
    /\ \/ pc = "done"
       \/ AssetPos(a) < ai
       \/ /\ AssetPos(a) = ai
          /\ \/ PassNo(p) < PassNo(pc)
             \/ PassNo(p) = PassNo(pc) /\ d < CurDate(St)

\* The pass p of asset a has finished all its dates.
PassDone(a, p) ==
    /\ Matching
    /\ \/ pc = "done"
       \/ AssetPos(a) < ai
       \/ AssetPos(a) = ai /\ PassNo(p) < PassNo(pc)

\* Indices of the matches of a rule with a disposal date.
LotsOf(a, d, rule) ==
    {i \in Idx : matches[i].asset = a /\ matches[i].date = d
                 /\ matches[i].rule = rule}

RECURSIVE SumAmount(_)
SumAmount(S) ==
    IF S = {} THEN 0
    ELSE LET i == CHOOSE x \in S : TRUE
         IN  matches[i].amount + SumAmount(S \ {i})

\* The acquisition days a disposal on d may be matched with.
DaysAfter(a, d) == {e \in DOMAIN orig[a] : d + 1 <= e /\ e <= d + 30}

\* C4: every BED_AND_BREAKFASTING match pairs a disposal on date d with an
\* acquisition of the same asset on a date m with d+1 <= m <= d+30; never
\* d itself, a date before d, or d+31 and later.
C4_BnBWithinThirtyDays ==
    \A i \in Idx :
        matches[i].rule = "BED_AND_BREAKFASTING" =>
            /\ matches[i].date + 1 <= matches[i].matchDate
            /\ matches[i].matchDate <= matches[i].date + 30
            /\ matches[i].matchDate \in DOMAIN orig[matches[i].asset]
            /\ orig[matches[i].asset][matches[i].matchDate].acquireAmt > 0

\* C4 witness: a disposal matched with an acquisition exactly 30 days later,
\* and, the pass over, still unmatched for the rest although the asset was
\* bought 31 days after it.
C4_Witness ==
    \E i \in Idx :
        LET a == matches[i].asset
            d == matches[i].date
        IN  /\ matches[i].rule = "BED_AND_BREAKFASTING"
            /\ matches[i].matchDate = d + 30
            /\ PassDone(a, "bnb")
            /\ assetTxs[a][d].disposeAmt > 0
            /\ d + 31 \in DOMAIN assetTxs[a]
            /\ assetTxs[a][d + 31].acquireAmt > 0

\* C9: the assertion at the head of the pooling loop never fails: once the
\* same-day pass has visited a day, at most one of acquireAmt / disposeAmt is
\* non-zero there, and no match ever drives an amount below zero or above
\* what was aggregated.
C9_NeverBothSides ==
    /\ err # "AssertionError"
    /\ Matching =>
         \A a \in DOMAIN assetTxs : \A d \in DOMAIN assetTxs[a] :
            LET tx == assetTxs[a][d]
            IN  /\ 0 <= tx.acquireAmt /\ tx.acquireAmt <= orig[a][d].acquireAmt
                /\ 0 <= tx.disposeAmt /\ tx.disposeAmt <= orig[a][d].disposeAmt
                /\ Processed(a, d, "sameday") =>
                       (tx.acquireAmt = 0 \/ tx.disposeAmt = 0)

\* C9 witness: the pooling pass visits a day that had both acquisitions and
\* disposals, in unequal amounts, and that also took part in a bed and
\* breakfasting match.
C9_Witness ==
    /\ err = "" /\ pc = "pool"
    /\ LET a == CurAsset(St)
           d == CurDate(St)
       IN  /\ orig[a][d].acquireAmt > 0 /\ orig[a][d].disposeAmt > 0
           /\ orig[a][d].acquireAmt # orig[a][d].disposeAmt
           /\ \E i \in Idx : /\ matches[i].rule = "BED_AND_BREAKFASTING"
                             /\ matches[i].asset = a
                             /\ d \in {matches[i].date, matches[i].matchDate}

\* C1: an asset whose only transactions are acquisitions and disposals of
\* equal total amount on one date inside the report window: __init__ does not
\* raise while it processes the asset, and once the asset's passes are over
\* there is exactly one SAME_DAY lot for it, with the day's whole acquisition
\* value as cost and whole disposal value as value, the day aggregate is zero
\* on both sides and there is no pooling lot.
C1_SameDayOnlyCompletes ==
    Matching =>
      \A a \in DOMAIN orig : \A d \in DOMAIN orig[a] :
        ( /\ DOMAIN orig[a] = {d}
          /\ orig[a][d].acquireAmt = orig[a][d].disposeAmt
          /\ start <= d /\ d <= end )
        =>
        /\ ~(err # "" /\ CurAsset(St) = a)
        /\ PassDone(a, "pool") =>
             /\ Cardinality(LotsOf(a, d, "SAME_DAY")) = 1
             /\ \A i \in LotsOf(a, d, "SAME_DAY") :
                    /\ matches[i].cost = orig[a][d].acquireVal
                    /\ matches[i].value = orig[a][d].disposeVal
             /\ assetTxs[a][d].acquireAmt = 0 /\ assetTxs[a][d].disposeAmt = 0
             /\ LotsOf(a, d, "SECTION_104") = {}

\* C5: whenever the pooling pass reaches a day whose remaining disposeAmt
\* exceeds the quantity of the asset's existing pool (a pool holding zero
\* included), __init__ raises the ValueError of AssetPool.dispose and leaves
\* the pool as it was.
C5_UnderflowIsValueError ==
    [][ ( /\ pc = "pool" /\ err = ""
          /\ CurTx(St).acquireAmt = 0
          /\ CurAsset(St) \in DOMAIN assetPools
          /\ CurTx(St).disposeAmt > assetPools[CurAsset(St)].totalQuantity )
        => ( /\ err' = "ValueError: Quantity of asset being disposed, is more than existing"
             /\ assetPools' = assetPools ) ]_vars

\* C7: with the disposal log enabled every in-window match adds one record
\* to the log and the computation goes on, also when several in-window
\* matches share a disposal date.
C7_EveryMatchLogged ==
    includeDisposals =>
        /\ err # "DateMapInsert"
        /\ Cardinality(DOMAIN disposals) =
              Cardinality({i \in Idx : matches[i].reportable})

\* ---- more helpers of the claims

RECURSIVE SumCost(_)
SumCost(S) ==
    IF S = {} THEN RZero
    ELSE LET i == CHOOSE x \in S : TRUE
         IN  RAdd(matches[i].cost, SumCost(S \ {i}))

RECURSIVE SumValue(_)
SumValue(S) ==
    IF S = {} THEN RZero
    ELSE LET i == CHOOSE x \in S : TRUE
         IN  RAdd(matches[i].value, SumValue(S \ {i}))

\* The days of asset a whose left-over acquisitions the pooling pass has added.
PooledDays(a) ==
    {d \in DOMAIN assetTxs[a] :
        Processed(a, d, "pool") /\ assetTxs[a][d].acquireAmt > 0}

RECURSIVE SumAcquireAmt(_, _)
SumAcquireAmt(a, D) ==
    IF D = {} THEN 0
    ELSE LET d == CHOOSE x \in D : TRUE
         IN  assetTxs[a][d].acquireAmt + SumAcquireAmt(a, D \ {d})

RECURSIVE SumAcquireVal(_, _)
SumAcquireVal(a, D) ==
    IF D = {} THEN RZero
    ELSE LET d == CHOOSE x \in D : TRUE
         IN  RAdd(assetTxs[a][d].acquireVal, SumAcquireVal(a, D \ {d}))

PoolLots(a) == {i \in Idx : matches[i].asset = a /\ matches[i].rule = "SECTION_104"}

\* C8: for a pool with totalQuantity Q > 0 and totalCost C, dispose(q) with
\* 0 < q <= Q does not raise, returns cost with cost * Q = C * q, and leaves
\* totalQuantity = Q - q and a totalCost that with the cost returned adds up
\* to C and keeps the average unit cost (totalCost' * Q = C * totalQuantity').
\* Every pooled lot made carries that cost, and each pool holds what was added
\* less what its lots took (but where the insert into the disposal log failed
\* after the pool had been disposed from).
C8_PoolDisposeProportional ==
    /\ \A a \in DOMAIN assetPools :
         LET pool == assetPools[a]
             Q == pool.totalQuantity
             C == pool.totalCost
         IN  \A q \in 1..Q :
               LET cost == PoolDisposeCost(pool, q)
                   left == PoolDispose(pool, q)
               IN  /\ ~PoolDisposeRaises(pool, q)
                   /\ cost[1] * Q * C[2] = C[1] * q * cost[2]
                   /\ left.totalQuantity = Q - q
                   /\ RAdd(left.totalCost, cost) = C
                   /\ left.totalCost[1] * Q * C[2]
                         = C[1] * left.totalQuantity * left.totalCost[2]
                   /\ cost[1] >= 0 /\ left.totalCost[1] >= 0
    /\ \A i \in Idx :
         matches[i].rule = "SECTION_104" =>
            /\ 0 < matches[i].amount /\ matches[i].amount <= matches[i].srcAmt
            /\ matches[i].cost[1] * matches[i].srcAmt * matches[i].srcVal[2]
                  = matches[i].srcVal[1] * matches[i].amount * matches[i].cost[2]
    /\ (Matching /\ err # "DateMapInsert") =>
         \A a \in DOMAIN assetPools :
            /\ assetPools[a].totalQuantity
                  = SumAcquireAmt(a, PooledDays(a)) - SumAmount(PoolLots(a))
            /\ RAdd(assetPools[a].totalCost, SumCost(PoolLots(a)))
                  = SumAcquireVal(a, PooledDays(a))

\* C8 witness: a pooled disposal took part of a pool at a cost that is no
\* whole number, and the pool holds the rest.
C8_Witness ==
    /\ err = ""
    /\ \E i \in Idx :
          /\ matches[i].rule = "SECTION_104"
          /\ matches[i].amount < matches[i].srcAmt
          /\ matches[i].cost[2] > 1
          /\ assetPools[matches[i].asset].totalQuantity
                = matches[i].srcAmt - matches[i].amount
          /\ assetPools[matches[i].asset].totalCost
                = RSub(matches[i].srcVal, matches[i].cost)

\* What was left to acquire from day e of asset a before match i.
AcqLeftBefore(a, e, i) ==
    orig[a][e].acquireAmt
      - SumAmount({k \in 1..(i - 1) :
                      /\ matches[k].asset = a /\ matches[k].matchDate = e
                      /\ matches[k].rule # "SECTION_104"})

\* What was left to dispose of on day d of asset a before match i.
DispLeftBefore(a, d, i) ==
    orig[a][d].disposeAmt
      - SumAmount({k \in 1..(i - 1) :
                      /\ matches[k].asset = a /\ matches[k].date = d
                      /\ matches[k].rule # "SECTION_104"})

BnBLots == {i \in Idx : matches[i].rule = "BED_AND_BREAKFASTING"}

\* C10: bed and breakfasting is greedy in ascending date order on both
\* sides.  The matches of an asset come in ascending order of disposal date
\* and, for one disposal, of acquisition date; when a match is made every
\* earlier day in the disposal's window has nothing left to acquire from and
\* every earlier disposal whose window holds the acquisition has nothing left
\* to dispose of; and after the pass a day keeps disposeAmt > 0 only if
\* every day in its window has acquireAmt = 0.
C10_BnBGreedyAscending ==
    /\ \A i \in BnBLots : \A j \in BnBLots :
         (i < j /\ matches[i].asset = matches[j].asset) =>
            \/ matches[i].date < matches[j].date
            \/ /\ matches[i].date = matches[j].date
               /\ matches[i].matchDate < matches[j].matchDate
    /\ \A i \in BnBLots :
         LET a == matches[i].asset
             d == matches[i].date
             m == matches[i].matchDate
         IN  /\ \A e \in DaysAfter(a, d) : e < m => AcqLeftBefore(a, e, i) = 0
             /\ \A d0 \in DOMAIN orig[a] :
                   (d0 < d /\ m \in DaysAfter(a, d0)) =>
                       DispLeftBefore(a, d0, i) = 0
    /\ Matching =>
         \A a \in DOMAIN assetTxs :
            PassDone(a, "bnb") =>
               \A d \in DOMAIN assetTxs[a] :
                  assetTxs[a][d].disposeAmt > 0 =>
                     \A e \in DaysAfter(a, d) : assetTxs[a][e].acquireAmt = 0

\* C10 witness: one disposal matched with two days of its window, the
\* earlier day first, and the pass is over.
C10_Witness ==
    \E i \in BnBLots : \E j \in BnBLots :
        /\ i < j
        /\ matches[i].asset = matches[j].asset
        /\ matches[i].date = matches[j].date
        /\ matches[i].matchDate < matches[j].matchDate
        /\ PassDone(matches[i].asset, "bnb")

\* ---- the example of C2: one asset, bought on d1 and sold in the same
\* amount on a later day d2, nothing else in the feed.
BoughtThenSold(a, d1, d2) ==
    /\ Matching
    /\ DOMAIN orig = {a} /\ DOMAIN orig[a] = {d1, d2} /\ d1 < d2
    /\ orig[a][d1].acquireAmt > 0 /\ orig[a][d1].disposeAmt = 0
    /\ orig[a][d2].acquireAmt = 0
    /\ orig[a][d2].disposeAmt = orig[a][d1].acquireAmt

\* C2 as claimed: an asset bought on one day and sold in the same amount on
\* a later day at most 30 days on, with nothing else, has its disposal
\* matched by the bed and breakfasting pass: a BED_AND_BREAKFASTING lot with
\* the acquisition's cost and the disposal's value, and no SECTION_104 lot.
C2_EarlierBuyIsBedAndBreakfast ==
    \A a \in Assets : \A d1 \in Dates : \A d2 \in Dates :
        (BoughtThenSold(a, d1, d2) /\ d2 <= d1 + 30 /\ PassDone(a, "bnb")) =>
            /\ \E i \in LotsOf(a, d2, "BED_AND_BREAKFASTING") :
                  /\ matches[i].cost = orig[a][d1].acquireVal
                  /\ matches[i].value = orig[a][d2].disposeVal
            /\ LotsOf(a, d2, "SECTION_104") = {}

\* C2 as amended: bed and breakfasting looks only at the 30 days after a
\* disposal.  A disposal with no same-day acquisition and no acquisition in
\* the 30 days after it gets no SAME_DAY and no BED_AND_BREAKFASTING lot; any
\* lot it gets is a SECTION_104 lot for its whole amount and value.  In the
\* example (bought on d1, sold in the same amount on a later d2, nothing
\* else) __init__ does not raise and ends with exactly one lot: SECTION_104,
\* cost the acquisition's whole cost, value the disposal's whole value, and
\* the pool emptied.
C2_EarlierBuyIsPooled ==
    /\ Matching =>
         \A a \in DOMAIN orig : \A d \in DOMAIN orig[a] :
            ( /\ orig[a][d].disposeAmt > 0 /\ orig[a][d].acquireAmt = 0
              /\ \A e \in DaysAfter(a, d) : orig[a][e].acquireAmt = 0 )
            =>
            /\ LotsOf(a, d, "SAME_DAY") = {}
            /\ LotsOf(a, d, "BED_AND_BREAKFASTING") = {}
            /\ Cardinality(LotsOf(a, d, "SECTION_104")) <= 1
            /\ \A i \in LotsOf(a, d, "SECTION_104") :
                  /\ matches[i].amount = orig[a][d].disposeAmt
                  /\ matches[i].value = orig[a][d].disposeVal
    /\ \A a \in Assets : \A d1 \in Dates : \A d2 \in Dates :
         BoughtThenSold(a, d1, d2) =>
            /\ err = ""
            /\ pc = "done" =>
                 /\ Len(matches) = 1
                 /\ matches[1].rule = "SECTION_104"
                 /\ matches[1].asset = a /\ matches[1].date = d2
                 /\ matches[1].amount = orig[a][d2].disposeAmt
                 /\ matches[1].cost = orig[a][d1].acquireVal
                 /\ matches[1].value = orig[a][d2].disposeVal
                 /\ assetPools[a] = NewPool

\* C2 witness: the example has run to its end with the two days less than
\* 30 days apart and inside the report window.
C2_Witness ==
    \E a \in Assets : \E d1 \in Dates : \E d2 \in Dates :
        /\ BoughtThenSold(a, d1, d2)
        /\ d2 <= d1 + 30 /\ start <= d1 /\ d2 <= end
        /\ pc = "done"
        /\ Len(matches) = 1 /\ matches[1].rule = "SECTION_104"
        /\ matches[1].reportable

RuleRank(r) ==
    IF r = "SAME_DAY" THEN 1 ELSE IF r = "BED_AND_BREAKFASTING" THEN 2 ELSE 3

\* What the same-day rule matches on day d of asset a.
SameDayAmount(a, d) == IF orig[a][d].disposeAmt < orig[a][d].acquireAmt
                       THEN orig[a][d].disposeAmt ELSE orig[a][d].acquireAmt

\* C3: per asset the rules apply in the order same-day, bed and breakfasting,
\* pooling.  The lots of an asset come in that order; a bed and breakfasting
\* lot exists only when the same-day pass is over for the asset and has
\* matched on every day what that day allows; a pooling lot or a pool exists
\* only when the bed and breakfasting pass is over too.  A day with
\* acquireAmount >= disposeAmount > 0 never gets a BED_AND_BREAKFASTING or
\* SECTION_104 lot and, once the same-day pass is past it, has exactly one
\* SAME_DAY lot, for the whole disposal.  Bed and breakfasting takes from a
\* day no more than what its own same-day match left.
C3_RulePriority ==
    Matching =>
    /\ \A i \in Idx : \A j \in Idx :
         (i < j /\ matches[i].asset = matches[j].asset) =>
            RuleRank(matches[i].rule) <= RuleRank(matches[j].rule)
    /\ \A a \in DOMAIN orig :
         /\ (\E i \in Idx : matches[i].asset = a /\ RuleRank(matches[i].rule) >= 2)
               => PassDone(a, "sameday")
         /\ (\/ a \in DOMAIN assetPools
             \/ \E i \in Idx : matches[i].asset = a /\ RuleRank(matches[i].rule) = 3)
               => PassDone(a, "bnb")
         /\ PassDone(a, "sameday") =>
               \A d \in DOMAIN orig[a] :
                  SumAmount(LotsOf(a, d, "SAME_DAY")) = SameDayAmount(a, d)
         /\ \A d \in DOMAIN orig[a] :
               /\ (orig[a][d].acquireAmt >= orig[a][d].disposeAmt
                     /\ orig[a][d].disposeAmt > 0) =>
                     /\ LotsOf(a, d, "BED_AND_BREAKFASTING") = {}
                     /\ LotsOf(a, d, "SECTION_104") = {}
                     /\ Cardinality(LotsOf(a, d, "SAME_DAY")) <= 1
                     /\ Processed(a, d, "sameday") =>
                          /\ Cardinality(LotsOf(a, d, "SAME_DAY")) = 1
                          /\ \A i \in LotsOf(a, d, "SAME_DAY") :
                                matches[i].amount = orig[a][d].disposeAmt
               /\ SumAmount({i \in BnBLots : matches[i].asset = a
                                             /\ matches[i].matchDate = d})
                     <= orig[a][d].acquireAmt - SameDayAmount(a, d)

\* C3 witness: a day with more bought than sold got its same-day lot, and an
\* earlier disposal was then matched with what that day had left.
C3_Witness ==
    /\ Matching
    /\ \E i \in BnBLots :
          LET a == matches[i].asset
              e == matches[i].matchDate
          IN  /\ orig[a][e].acquireAmt > orig[a][e].disposeAmt
              /\ orig[a][e].disposeAmt > 0
              /\ Cardinality(LotsOf(a, e, "SAME_DAY")) = 1
              /\ matches[i].amount = orig[a][e].acquireAmt - orig[a][e].disposeAmt
              /\ PassDone(a, "bnb")

\* The matches whose disposal date lies in the report window.
Reported == {i \in Idx : start <= matches[i].date /\ matches[i].date <= end}

\* The possible values of start.
Starts == Dates \cup {0, 33}

\* C6: a match counts (per-asset gain, total gain, disposal log,
\* total_number_of_disposals) if and only if start <= its disposal date <= end,
\* whatever its rule and its matched date (a match is one that match or the
\* pooling step completed: where the insert into the disposal log failed,
\* __init__ has raised); the day aggregates are decremented
\* by every match, counted or not; and for one set of transactions the pools
\* __init__ ends with are the same for every start with which it completes.
C6_WindowFiltersLotsOnly ==
    /\ (Matching /\ err # "DateMapInsert") =>
         /\ \A i \in Idx : matches[i].reportable <=> i \in Reported
         /\ total_number_of_disposals = Cardinality(Reported)
         /\ IF includeDisposals
            THEN /\ DOMAIN disposals = {matches[i].date : i \in Reported}
                 /\ Cardinality(DOMAIN disposals) = Cardinality(Reported)
                 /\ \A i \in Reported :
                       disposals[matches[i].date][1] = matches[i].asset
            ELSE disposals = DateMapEmpty
         /\ IF includeSummary
            THEN /\ totalGain = NewGain(SumCost(Reported), SumValue(Reported))
                 /\ DOMAIN assetGain = {matches[i].asset : i \in Reported}
                 /\ \A a \in DOMAIN assetGain :
                       LET R == {i \in Reported : matches[i].asset = a}
                       IN  assetGain[a] = NewGain(SumCost(R), SumValue(R))
            ELSE /\ totalGain = NewGain(RZero, RZero)
                 /\ DOMAIN assetGain = {}
    /\ Matching =>
         \A a \in DOMAIN orig : \A d \in DOMAIN orig[a] :
            LET D == {i \in Idx : /\ matches[i].asset = a /\ matches[i].date = d
                                  /\ matches[i].rule # "SECTION_104"}
                A == {i \in Idx : /\ matches[i].asset = a
                                  /\ matches[i].matchDate = d
                                  /\ matches[i].rule # "SECTION_104"}
            IN  /\ assetTxs[a][d].disposeAmt + SumAmount(D) = orig[a][d].disposeAmt
                /\ assetTxs[a][d].acquireAmt + SumAmount(A) = orig[a][d].acquireAmt
                /\ RAdd(assetTxs[a][d].disposeVal, SumValue(D)) = orig[a][d].disposeVal
                /\ RAdd(assetTxs[a][d].acquireVal, SumCost(A)) = orig[a][d].acquireVal
    /\ (pc = "sameday" /\ ai = 1 /\ di = 1 /\ err = "") =>
         LET r1 == Run(St)
         IN  r1.err = "" =>
                \A s2 \in Starts :
                   LET r2 == Run([St EXCEPT !.start = s2])
                   IN  r2.err = "" =>
                          /\ r1.assetPools = r2.assetPools
                          /\ r1.assetTxs = r2.assetTxs

\* C6 witness: __init__ has completed with one match before the window, which
\* took its amount from the day aggregate and is not counted, and one match
\* in the window, which is; with a later start neither would be counted.
C6_Witness ==
    /\ pc = "done" /\ err = "" /\ includeSummary /\ includeDisposals
    /\ \E i \in Idx : \E j \in Idx :
          /\ matches[i].date < start /\ ~matches[i].reportable
          /\ matches[i].rule = "SAME_DAY"
          /\ assetTxs[matches[i].asset][matches[i].date].acquireAmt
                < orig[matches[i].asset][matches[i].date].acquireAmt
          /\ matches[j].reportable /\ matches[j].rule = "SECTION_104"
    /\ total_number_of_disposals = 1
    /\ Cardinality(DOMAIN disposals) = 1
====
